---- MODULE Spec2Model ----
(***************************************************************************)
(* Model of hotel_management.py: the SQLite store (one sequence per table, *)
(* a row's id is its index: ids are AUTOINCREMENT and no row is ever       *)
(* deleted) and one action per click command.  Money is counted in whole   *)
(* currency units; the columns no command reads back (phone, email,        *)
(* room_type, category, notes, method, created_at, issue/due/payment       *)
(* dates) are left out of the rows.                                        *)
(***************************************************************************)
EXTENDS Integers, Sequences, FiniteSets, TLC

VARIABLES schema, guests, rooms, bookings, services, orders,
          invoices, invoice_items, payments, last

vars == <<schema, guests, rooms, bookings, services, orders,
          invoices, invoice_items, payments, last>>

tables == <<schema, guests, rooms, bookings, services, orders,
            invoices, invoice_items, payments>>

(***************************************************************************)
(* Bounds of the model and the inputs the commands are tried with.         *)
(***************************************************************************)
MaxGuests == 1
MaxRooms == 2
MaxBookings == 2
MaxServices == 1
MaxOrders == 1
MaxInvoices == 2
MaxPayments == 2

None == <<>>

GuestNames == {"Amal"}
\* add-room --number/--rate pairs
RoomInputs == {[number |-> "101", rate |-> 100], [number |-> "102", rate |-> 0]}
\* service add --name/--price pairs
ServiceInputs == {[name |-> "Tea", price |-> 20]}
Quantities == {-1, 2}
Amounts == {-100, 100, 340}

\* --check-in / --check-out texts, as <<year, month, day>>; 2024-02-30 is
\* not a calendar date, and 2024-02-27 to 2024-03-01 is 3 nights.
DateInputs == {<<2024, 2, 27>>, <<2024, 2, 30>>, <<2024, 3, 1>>}

\* --issue-date / --due-date / --payment-date texts (None: option not given)
OptDateInputs == {None, <<2024, 2, 30>>}

GuestIds == 1..(MaxGuests + 1)
RoomIds == 1..(MaxRooms + 1)
BookingIds == 1..(MaxBookings + 1)
ServiceIds == 1..(MaxServices + 1)
InvoiceIds == 1..(MaxInvoices + 1)

(***************************************************************************)
(* Dates: datetime.strptime(value, "%Y-%m-%d").date() and date arithmetic. *)
(***************************************************************************)
IsLeap(y) == (y % 4 = 0) /\ ((y % 100 # 0) \/ (y % 400 = 0))

DaysInMonth(y, m) ==
    IF m = 2 THEN (IF IsLeap(y) THEN 29 ELSE 28)
    ELSE IF m \in {4, 6, 9, 11} THEN 30 ELSE 31

RECURSIVE DaysBeforeMonth(_, _)
DaysBeforeMonth(y, m) ==
    IF m <= 1 THEN 0 ELSE DaysBeforeMonth(y, m - 1) + DaysInMonth(y, m - 1)

DaysBeforeYear(y) ==
    LET p == y - 1 IN p * 365 + (p \div 4) - (p \div 100) + (p \div 400)

\* date.toordinal(): what (end - start).days subtracts
ToOrdinal(d) == DaysBeforeYear(d[1]) + DaysBeforeMonth(d[1], d[2]) + d[3]

\* strptime succeeds only on a calendar date
IsDate(v) ==
    /\ v # None
    /\ v[1] \in 1..9999
    /\ v[2] \in 1..12
    /\ v[3] \in 1..DaysInMonth(v[1], v[2])

\* parse_date: the ISO date of the text, or "BadParameter"
parse_date(value) ==
    IF IsDate(value) THEN [ok |-> TRUE, iso |-> value]
    ELSE [ok |-> FALSE, iso |-> None]

calculate_nights_off_by_one(check_in, check_out) ==
    LET delta == ToOrdinal(check_out) - ToOrdinal(check_in) + 1
    IN  IF delta <= 0 THEN [ok |-> FALSE, nights |-> 0]
        ELSE [ok |-> TRUE, nights |-> delta]

calculate_nights_accepts_same_day(check_in, check_out) ==
    LET delta == ToOrdinal(check_out) - ToOrdinal(check_in)
    IN  IF delta < 0 THEN [ok |-> FALSE, nights |-> 0]
        ELSE [ok |-> TRUE, nights |-> delta]

\* calculate_nights: the day count, or "BadParameter" when it is <= 0
calculate_nights(check_in, check_out) ==
    LET delta == ToOrdinal(check_out) - ToOrdinal(check_in)
    IN  IF delta <= 0 THEN [ok |-> FALSE, nights |-> 0]
        ELSE [ok |-> TRUE, nights |-> delta]

(***************************************************************************)
(* The store and the connection.                                           *)
(***************************************************************************)
Store == [guests |-> guests, rooms |-> rooms, bookings |-> bookings,
          services |-> services, orders |-> orders, invoices |-> invoices,
          invoice_items |-> invoice_items, payments |-> payments]

Persist(s) ==
    /\ guests' = s.guests
    /\ rooms' = s.rooms
    /\ bookings' = s.bookings
    /\ services' = s.services
    /\ orders' = s.orders
    /\ invoices' = s.invoices
    /\ invoice_items' = s.invoice_items
    /\ payments' = s.payments

\* The connection of a command whose k-th write is the last one done before
\* the command dies (failAt = k > 0), or that reaches conn.commit()
\* (failAt = 0).  writes[k] is the connection's view after the k-th write.
get_connection_autocommit(before, writes, failAt) ==
    IF failAt = 0 THEN writes[Len(writes)] ELSE writes[failAt]

\* get_connection: conn.close() in the finally clause discards the open
\* transaction, conn.commit() makes all the writes durable at once.
get_connection(before, writes, failAt) ==
    IF failAt = 0 THEN writes[Len(writes)] ELSE before

\* What the last command was given and how it ended
Report(cmd, args, outcome, report) ==
    [cmd |-> cmd, args |-> args, outcome |-> outcome, report |-> report]

Outcome(cmd, args, outcome) == Report(cmd, args, outcome, None)

\* SUM over a column of the selected rows
RECURSIVE SumOf(_, _)
SumOf(rows, col) ==
    IF rows = <<>> THEN 0
    ELSE rows[1][col] + SumOf(Tail(rows), col)

Init ==
    /\ schema = FALSE
    /\ guests = <<>>
    /\ rooms = <<>>
    /\ bookings = <<>>
    /\ services = <<>>
    /\ orders = <<>>
    /\ invoices = <<>>
    /\ invoice_items = <<>>
    /\ payments = <<>>
    /\ last = Outcome("none", None, "none")

\* init-db: CREATE TABLE IF NOT EXISTS for every table
init_db ==
    /\ schema' = TRUE
    /\ Persist(Store)
    /\ last' = Outcome("init-db", None, "ok")

NoSchema_reraised(cmd, args) ==
    /\ ~schema
    /\ UNCHANGED tables
    /\ last' = Outcome(cmd, args, "crash")

\* handle_db_errors: the first statement of a command on a store without
\* tables raises "no such table", reported as the init-db hint
NoSchema(cmd, args) ==
    /\ ~schema
    /\ UNCHANGED tables
    /\ last' = Outcome(cmd, args, "no_schema")

add_guest ==
    \E name \in GuestNames :
        LET args == [name |-> name] IN
        IF ~schema THEN
            NoSchema("add-guest", args)
        ELSE
            /\ Len(guests) < MaxGuests
            /\ guests' = Append(guests, [name |-> name])
            /\ UNCHANGED <<schema, rooms, bookings, services, orders,
                           invoices, invoice_items, payments>>
            /\ last' = Outcome("add-guest", args, "ok")

UniqueViolation_never(rows, col, value) == FALSE

\* A UNIQUE column (rooms.room_number, services.name, invoices.booking_id):
\* the INSERT of a value that a row already holds raises IntegrityError
UniqueViolation(rows, col, value) ==
    \E i \in 1..Len(rows) : rows[i][col] = value

\* rooms.room_number is UNIQUE: a duplicate raises sqlite3.IntegrityError
add_room ==
    \E room \in RoomInputs :
        LET number == room.number
            rate == room.rate
            args == [number |-> number] IN
        IF ~schema THEN
            NoSchema("add-room", args)
        ELSE IF UniqueViolation(rooms, "room_number", number) THEN
            /\ UNCHANGED tables
            /\ last' = Outcome("add-room", args, "integrity_error")
        ELSE
            /\ Len(rooms) < MaxRooms
            /\ rooms' = Append(rooms, [room_number |-> number, rate |-> rate,
                                       status |-> "available"])
            /\ UNCHANGED <<schema, guests, bookings, services, orders,
                           invoices, invoice_items, payments>>
            /\ last' = Outcome("add-room", args, "ok")

room_occupied_never(room) == FALSE

\* create_booking: if room["status"] == "occupied"
room_occupied(room) == room.status = "occupied"

BookingStatusDefault_completed == "completed"

\* bookings.status TEXT NOT NULL DEFAULT 'upcoming': create_booking's INSERT
\* gives no status
BookingStatusDefault == "upcoming"

OccupyRoom_every(rs, room_id) ==
    [i \in 1..Len(rs) |-> [rs[i] EXCEPT !.status = "occupied"]]

\* create_booking: UPDATE rooms SET status='occupied' WHERE id=?
OccupyRoom(rs, room_id) == [rs EXCEPT ![room_id].status = "occupied"]

\* create_booking: dates are parsed and compared before the store is opened
create_booking_cmd(guest_id, room_id, check_in, check_out) ==
    LET args == [guest_id |-> guest_id, room_id |-> room_id,
                 check_in |-> check_in, check_out |-> check_out]
        ci == parse_date(check_in)
        co == parse_date(check_out)
        n == calculate_nights(ci.iso, co.iso)
    IN
    IF ~ci.ok \/ ~co.ok \/ ~n.ok THEN
        /\ UNCHANGED tables
        /\ last' = Outcome("create-booking", args, "validation")
    ELSE IF ~schema THEN
        NoSchema("create-booking", args)
    ELSE IF room_id \notin 1..Len(rooms) THEN
        /\ UNCHANGED tables
        /\ last' = Outcome("create-booking", args, "not_found")
    ELSE IF room_occupied(rooms[room_id]) THEN
        /\ UNCHANGED tables
        /\ last' = Outcome("create-booking", args, "conflict")
    ELSE
        LET total == n.nights * rooms[room_id].rate
            w1 == [Store EXCEPT !.bookings = Append(@,
                     [guest_id |-> guest_id, room_id |-> room_id,
                      check_in |-> ci.iso, check_out |-> co.iso,
                      status |-> BookingStatusDefault, nights |-> n.nights,
                      room_total |-> total])]
            w2 == [w1 EXCEPT !.rooms = OccupyRoom(@, room_id)]
        IN
        /\ Len(bookings) < MaxBookings
        /\ \E failAt \in 0..2 :
               /\ Persist(get_connection(Store, <<w1, w2>>, failAt))
               /\ UNCHANGED schema
               /\ last' = Outcome("create-booking", args,
                                  IF failAt = 0 THEN "ok" ELSE "crash")

create_booking ==
    \E guest_id \in GuestIds, room_id \in RoomIds,
       check_in \in DateInputs, check_out \in DateInputs :
        create_booking_cmd(guest_id, room_id, check_in, check_out)

already_completed_never(booking) == FALSE

\* complete_booking: if booking["status"] == "completed"
already_completed(booking) == booking.status = "completed"

ReleasedRoom_booking_id(booking_id, booking) == booking_id

\* complete_booking: UPDATE rooms SET status='available' WHERE id = booking["room_id"]
ReleasedRoom(booking_id, booking) == booking.room_id

\* complete_booking: a completed booking is reported and left alone
complete_booking_cmd(booking_id) ==
    LET args == [booking_id |-> booking_id] IN
    IF ~schema THEN
        NoSchema("complete-booking", args)
    ELSE IF booking_id \notin 1..Len(bookings) THEN
        /\ UNCHANGED tables
        /\ last' = Outcome("complete-booking", args, "not_found")
    ELSE IF already_completed(bookings[booking_id]) THEN
        /\ UNCHANGED tables
        /\ last' = Outcome("complete-booking", args, "already_completed")
    ELSE
        LET w1 == [Store EXCEPT !.bookings[booking_id].status = "completed"]
            room_id == ReleasedRoom(booking_id, bookings[booking_id])
            w2 == IF room_id \in 1..Len(rooms)
                  THEN [w1 EXCEPT !.rooms[room_id].status = "available"]
                  ELSE w1
        IN
        /\ \E failAt \in 0..2 :
               /\ Persist(get_connection(Store, <<w1, w2>>, failAt))
               /\ UNCHANGED schema
               /\ last' = Outcome("complete-booking", args,
                                  IF failAt = 0 THEN "ok" ELSE "crash")

complete_booking ==
    \E booking_id \in BookingIds :
        complete_booking_cmd(booking_id)

\* services.name is UNIQUE: a duplicate raises sqlite3.IntegrityError
add_service ==
    \E svc \in ServiceInputs :
        LET name == svc.name
            price == svc.price
            args == [name |-> name] IN
        IF ~schema THEN
            NoSchema("service add", args)
        ELSE IF UniqueViolation(services, "name", name) THEN
            /\ UNCHANGED tables
            /\ last' = Outcome("service add", args, "integrity_error")
        ELSE
            /\ Len(services) < MaxServices
            /\ services' = Append(services, [name |-> name, price |-> price])
            /\ UNCHANGED <<schema, guests, rooms, bookings, orders,
                           invoices, invoice_items, payments>>
            /\ last' = Outcome("service add", args, "ok")

\* add_order: only the service is looked up, the booking id is stored as given
add_order_cmd(booking_id, service_id, quantity) ==
    LET args == [booking_id |-> booking_id, service_id |-> service_id] IN
    IF ~schema THEN
        NoSchema("order add", args)
    ELSE IF service_id \notin 1..Len(services) THEN
        /\ UNCHANGED tables
        /\ last' = Outcome("order add", args, "not_found")
    ELSE
        LET total == services[service_id].price * quantity
            w1 == [Store EXCEPT !.orders = Append(@,
                     [booking_id |-> booking_id, service_id |-> service_id,
                      quantity |-> quantity, total_price |-> total])]
        IN
        /\ Len(orders) < MaxOrders
        /\ \E failAt \in 0..1 :
               /\ Persist(get_connection(Store, <<w1>>, failAt))
               /\ UNCHANGED schema
               /\ last' = Outcome("order add", args,
                                  IF failAt = 0 THEN "ok" ELSE "crash")

add_order ==
    \E booking_id \in BookingIds, service_id \in ServiceIds,
       quantity \in Quantities :
        add_order_cmd(booking_id, service_id, quantity)

_invoice_exists_never(invs, booking_id) == FALSE

\* _invoice_exists: SELECT id FROM invoices WHERE booking_id=?
_invoice_exists(invs, booking_id) ==
    \E i \in 1..Len(invs) : invs[i].booking_id = booking_id

\* _fetch_booking_summary: bookings JOIN guests JOIN rooms WHERE b.id = ?
\* has a row only if the booking's guest and room rows exist too
_fetch_booking_summary(booking_id) ==
    IF /\ booking_id \in 1..Len(bookings)
       /\ bookings[booking_id].guest_id \in 1..Len(guests)
       /\ bookings[booking_id].room_id \in 1..Len(rooms)
    THEN [found |-> TRUE,
          nights |-> bookings[booking_id].nights,
          room_total |-> bookings[booking_id].room_total,
          room_number |-> rooms[bookings[booking_id].room_id].room_number]
    ELSE [found |-> FALSE]

\* generate_invoice: SELECT ... FROM orders o JOIN services s WHERE o.booking_id = ?
OrdersOf(booking_id) ==
    LET sel == SelectSeq(orders, LAMBDA o :
                   o.booking_id = booking_id /\ o.service_id \in 1..Len(services))
    IN  [k \in 1..Len(sel) |->
            [quantity |-> sel[k].quantity, total_price |-> sel[k].total_price,
             name |-> services[sel[k].service_id].name]]

InvoiceTotal_room_only(room_charge, ords) == room_charge

\* generate_invoice: total = room_charge + sum(order["total_price"] ...)
InvoiceTotal(room_charge, ords) == room_charge + SumOf(ords, "total_price")

OrderItemAmount_quantity(order) == order.quantity

\* generate_invoice: the amount of an order's item is float(order["total_price"])
OrderItemAmount(order) == order.total_price

\* generate_invoice: the invoice row, then the room item, then one item per order
InvoiceWrites(booking_id, booking, ords) ==
    LET invoice_id == Len(invoices) + 1
        w1 == [Store EXCEPT !.invoices = Append(@,
                 [booking_id |-> booking_id, status |-> "unpaid",
                  total_amount |-> InvoiceTotal(booking.room_total, ords)])]
        roomItem == [invoice_id |-> invoice_id,
                     description |-> <<"Room", booking.room_number, booking.nights>>,
                     amount |-> booking.room_total]
        orderItem(k) == [invoice_id |-> invoice_id,
                         description |-> <<ords[k].name, ords[k].quantity>>,
                         amount |-> OrderItemAmount(ords[k])]
    IN  [k \in 1..(2 + Len(ords)) |->
            IF k = 1 THEN w1
            ELSE [w1 EXCEPT !.invoice_items =
                    @ \o <<roomItem>> \o [j \in 1..(k - 2) |-> orderItem(j)]]]

generate_invoice_cmd(booking_id, issue_date, due_date) ==
    LET args == [booking_id |-> booking_id, issue_date |-> issue_date,
                 due_date |-> due_date]
        issue == IF issue_date = None THEN TRUE ELSE parse_date(issue_date).ok
        due == IF due_date = None THEN TRUE ELSE parse_date(due_date).ok
        booking == _fetch_booking_summary(booking_id)
        ords == OrdersOf(booking_id)
    IN
    IF ~issue \/ ~due THEN
        /\ UNCHANGED tables
        /\ last' = Outcome("invoice generate", args, "validation")
    ELSE IF ~schema THEN
        NoSchema("invoice generate", args)
    ELSE IF _invoice_exists(invoices, booking_id) THEN
        /\ UNCHANGED tables
        /\ last' = Outcome("invoice generate", args, "conflict")
    ELSE IF ~booking.found THEN
        /\ UNCHANGED tables
        /\ last' = Outcome("invoice generate", args, "not_found")
    ELSE IF UniqueViolation(invoices, "booking_id", booking_id) THEN
        \* invoices.booking_id is UNIQUE: the INSERT raises sqlite3.IntegrityError
        /\ UNCHANGED tables
        /\ last' = Outcome("invoice generate", args, "integrity_error")
    ELSE
        /\ Len(invoices) < MaxInvoices
        /\ \E failAt \in 0..(2 + Len(ords)) :
               /\ Persist(get_connection(Store, InvoiceWrites(booking_id, booking, ords),
                                         failAt))
               /\ UNCHANGED schema
               /\ last' = Outcome("invoice generate", args,
                                  IF failAt = 0 THEN "ok" ELSE "crash")

generate_invoice ==
    \E booking_id \in BookingIds, issue_date \in OptDateInputs,
       due_date \in OptDateInputs :
        generate_invoice_cmd(booking_id, issue_date, due_date)

\* SELECT ... FROM payments WHERE invoice_id=?
PaymentsOf(pays, invoice_id) ==
    SelectSeq(pays, LAMBDA p : p.invoice_id = invoice_id)

\* add_payment: "paid" if total_paid >= total_amount else "partial"
PaymentStatus(total_paid, total_amount) ==
    IF total_paid >= total_amount THEN "paid" ELSE "partial"

UpdatedInvoice_nets_total(inv, status, total_paid) ==
    [inv EXCEPT !.status = status, !.total_amount = @ - total_paid]

\* add_payment: UPDATE invoices SET status=? WHERE id=?
UpdatedInvoice(inv, status, total_paid) == [inv EXCEPT !.status = status]

\* add_payment: the invoice is looked up, then the date is parsed, then the
\* payment is inserted and the status recomputed from SUM(amount)
add_payment_cmd(invoice_id, amount, payment_date) ==
    LET args == [invoice_id |-> invoice_id, amount |-> amount]
        date == IF payment_date = None THEN TRUE ELSE parse_date(payment_date).ok
    IN
    IF ~schema THEN
        NoSchema("payment add", args)
    ELSE IF invoice_id \notin 1..Len(invoices) THEN
        /\ UNCHANGED tables
        /\ last' = Outcome("payment add", args, "not_found")
    ELSE IF ~date THEN
        /\ UNCHANGED tables
        /\ last' = Outcome("payment add", args, "validation")
    ELSE
        LET w1 == [Store EXCEPT !.payments = Append(@,
                     [invoice_id |-> invoice_id, amount |-> amount])]
            total_paid == SumOf(PaymentsOf(w1.payments, invoice_id), "amount")
            status == PaymentStatus(total_paid, invoices[invoice_id].total_amount)
            w2 == [w1 EXCEPT !.invoices[invoice_id] =
                     UpdatedInvoice(@, status, total_paid)]
        IN
        /\ Len(payments) < MaxPayments
        /\ \E failAt \in 0..2 :
               /\ Persist(get_connection(Store, <<w1, w2>>, failAt))
               /\ UNCHANGED schema
               /\ last' = Outcome("payment add", args,
                                  IF failAt = 0 THEN "ok" ELSE "crash")

add_payment ==
    \E invoice_id \in InvoiceIds, amount \in Amounts,
       payment_date \in OptDateInputs :
        add_payment_cmd(invoice_id, amount, payment_date)

Balance_negated(total, total_paid) == total_paid - total

\* show_invoice, list_invoices: the Balance figure is total_amount - paid
Balance(total, total_paid) == total - total_paid

\* show_invoice, list_invoices: invoices JOIN bookings JOIN guests has a row
\* for the invoice only if its booking and the booking's guest exist
InvoiceJoined(invoice_id) ==
    /\ invoice_id \in 1..Len(invoices)
    /\ invoices[invoice_id].booking_id \in 1..Len(bookings)
    /\ bookings[invoices[invoice_id].booking_id].guest_id \in 1..Len(guests)

\* The Status, Total, Paid and Balance figures printed for an invoice
InvoiceFigures(invoice_id) ==
    LET total_paid == SumOf(PaymentsOf(payments, invoice_id), "amount")
        total == invoices[invoice_id].total_amount
    IN  [status |-> invoices[invoice_id].status,
         total |-> total, paid |-> total_paid,
         balance |-> Balance(total, total_paid)]

\* show_invoice: the invoice row, its items and payments, then the totals
\* line: Total, Paid, Balance
show_invoice ==
    \E invoice_id \in InvoiceIds :
        LET args == [invoice_id |-> invoice_id] IN
        /\ UNCHANGED tables
        /\ IF ~schema THEN
               last' = Outcome("invoice show", args, "no_schema")
           ELSE IF ~InvoiceJoined(invoice_id) THEN
               last' = Outcome("invoice show", args, "not_found")
           ELSE
               last' = Report("invoice show", args, "ok",
                              InvoiceFigures(invoice_id))

\* list_invoices: one row of figures per invoice (by invoice id here; the
\* ORDER BY issue_date of the printed table is not modelled)
list_invoices ==
    /\ UNCHANGED tables
    /\ IF ~schema THEN
           last' = Outcome("invoice list", None, "no_schema")
       ELSE
           last' = Report("invoice list", None, "ok",
                          [i \in {j \in 1..Len(invoices) : InvoiceJoined(j)} |->
                              InvoiceFigures(i)])

NextBooking ==
    \/ init_db
    \/ add_guest
    \/ add_room
    \/ create_booking
    \/ complete_booking

\* The booking lifecycle from an empty directory
SpecBooking == Init /\ [][NextBooking]_vars

\* A stay of 3 nights in room 101 (rate 100), as create_booking stores it
Stay(guest_id, status) ==
    [guest_id |-> guest_id, room_id |-> 1,
     check_in |-> <<2024, 2, 27>>, check_out |-> <<2024, 3, 1>>,
     status |-> status, nights |-> 3, room_total |-> 300]

StayArgs(guest_id) ==
    [guest_id |-> guest_id, room_id |-> 1,
     check_in |-> <<2024, 2, 27>>, check_out |-> <<2024, 3, 1>>]

\* The stores left by: init-db; add-guest; add-room 101; add-room 102;
\* create-booking in room 101 for guest 1 or for the unknown guest 2;
\* complete-booking 1; create-booking in room 101 for guest 1.
InitBilling ==
    \E g \in GuestIds :
        /\ schema = TRUE
        /\ guests = <<[name |-> "Amal"]>>
        /\ rooms = <<[room_number |-> "101", rate |-> 100, status |-> "occupied"],
                     [room_number |-> "102", rate |-> 0, status |-> "available"]>>
        /\ bookings = <<Stay(g, "completed"), Stay(1, "upcoming")>>
        /\ services = <<>>
        /\ orders = <<>>
        /\ invoices = <<>>
        /\ invoice_items = <<>>
        /\ payments = <<>>
        /\ last = Outcome("create-booking", StayArgs(1), "ok")

NextBilling ==
    \/ add_service
    \/ add_order
    \/ generate_invoice
    \/ add_payment
    \/ show_invoice
    \/ list_invoices
    \/ complete_booking

\* Orders, invoices and payments on a store that holds two bookings
SpecBilling == InitBilling /\ [][NextBilling]_vars

\* The store left by: init-db; add-guest; add-room 101; add-room 102;
\* create-booking in room 101 for guest 1.
InitTransactions ==
    /\ schema = TRUE
    /\ guests = <<[name |-> "Amal"]>>
    /\ rooms = <<[room_number |-> "101", rate |-> 100, status |-> "occupied"],
                 [room_number |-> "102", rate |-> 0, status |-> "available"]>>
    /\ bookings = <<Stay(1, "upcoming")>>
    /\ services = <<>>
    /\ orders = <<>>
    /\ invoices = <<>>
    /\ invoice_items = <<>>
    /\ payments = <<>>
    /\ last = Outcome("create-booking", StayArgs(1), "ok")

NextTransactions ==
    \/ create_booking
    \/ complete_booking
    \/ generate_invoice
    \/ add_payment

\* The four commands that write more than one row, each of which may die
\* between two of its writes
SpecTransactions == InitTransactions /\ [][NextTransactions]_vars

NextCatalogue ==
    \/ init_db
    \/ add_guest
    \/ add_room
    \/ add_service
    \/ add_order

\* Rooms, services and orders of services from an empty directory
SpecCatalogue == Init /\ [][NextCatalogue]_vars

ListCommands == {"list-guests", "list-rooms", "list-bookings",
                 "service list", "order list", "payment list"}

\* list_guests, list_rooms, list_bookings, list_services, list_orders,
\* list_payments: one SELECT, then the printed table (not modelled)
list_rows ==
    \E cmd \in ListCommands :
        IF ~schema THEN
            NoSchema(cmd, None)
        ELSE
            /\ UNCHANGED tables
            /\ last' = Outcome(cmd, None, "ok")

\* The store left by: init-db; add-guest; add-room 101; add-room 102;
\* create-booking in room 101; complete-booking 1; create-booking in room
\* 101; invoice generate for booking 1; payment add of 100 on invoice 1.
InitInvoiced ==
    /\ schema = TRUE
    /\ guests = <<[name |-> "Amal"]>>
    /\ rooms = <<[room_number |-> "101", rate |-> 100, status |-> "occupied"],
                 [room_number |-> "102", rate |-> 0, status |-> "available"]>>
    /\ bookings = <<Stay(1, "completed"), Stay(1, "upcoming")>>
    /\ services = <<>>
    /\ orders = <<>>
    /\ invoices = <<[booking_id |-> 1, status |-> "partial",
                     total_amount |-> 300]>>
    /\ invoice_items = <<[invoice_id |-> 1,
                          description |-> <<"Room", "101", 3>>,
                          amount |-> 300]>>
    /\ payments = <<[invoice_id |-> 1, amount |-> 100]>>
    /\ last = Outcome("payment add", [invoice_id |-> 1, amount |-> 100], "ok")

InitSchema == Init \/ InitInvoiced

\* Every command typed into a directory where init-db was not run yet;
\* init-db on an empty directory and on a store that holds rows; the
\* catalogue and list commands after it
NextSchema ==
    \/ init_db
    \/ add_guest
    \/ add_room
    \/ add_service
    \/ add_order
    \/ list_rows
    \/ ~schema /\ create_booking
    \/ ~schema /\ complete_booking
    \/ ~schema /\ generate_invoice
    \/ ~schema /\ add_payment
    \/ ~schema /\ show_invoice
    \/ ~schema /\ list_invoices

SpecSchema == InitSchema /\ [][NextSchema]_vars

\* The booking and billing commands on a store with one occupied and one
\* available room, with well-formed dates: a stay of guest 1 over the nights
\* of Stay, orders of 2 of service 1, invoices and payments dated today
NextFrame ==
    \/ add_service
    \/ \E room_id \in RoomIds :
           create_booking_cmd(1, room_id, <<2024, 2, 27>>, <<2024, 3, 1>>)
    \/ complete_booking
    \/ \E booking_id \in BookingIds : add_order_cmd(booking_id, 1, 2)
    \/ \E booking_id \in BookingIds :
           generate_invoice_cmd(booking_id, None, None)
    \/ \E invoice_id \in InvoiceIds, amount \in Amounts :
           add_payment_cmd(invoice_id, amount, None)

SpecFrame == InitTransactions /\ [][NextFrame]_vars

\* The stores SpecBilling and SpecTransactions start from are stores that
\* SpecBooking reaches (their negations are violated under SpecBooking)
BillingStartNotReached == ~InitBilling

TransactionsStartNotReached == ~InitTransactions

\* The invoiced store SpecSchema starts from is one that SpecBilling reaches
SchemaStartNotReached == ~InitInvoiced

(***************************************************************************)
(* Properties of the booking lifecycle, checked under SpecBooking.         *)
(***************************************************************************)
UpcomingOn(room_id) ==
    {b \in 1..Len(bookings) :
        bookings[b].room_id = room_id /\ bookings[b].status = "upcoming"}

\* C1: a room is 'occupied' iff exactly one 'upcoming' booking references it
\* and 'available' otherwise; no room ever has two upcoming bookings.
C1_RoomOccupiedIffOneUpcoming ==
    \A r \in 1..Len(rooms) :
        /\ Cardinality(UpcomingOn(r)) <= 1
        /\ rooms[r].status = "occupied" <=> Cardinality(UpcomingOn(r)) = 1
        /\ rooms[r].status = "available" <=> Cardinality(UpcomingOn(r)) # 1

\* A room is occupied by its second booking, the first one being completed
C1_Witness ==
    \E r \in 1..Len(rooms) :
        /\ rooms[r].status = "occupied"
        /\ \E b \in 1..Len(bookings) :
              bookings[b].room_id = r /\ bookings[b].status = "completed"

\* The command that took the step is create-booking, on an occupied room
CreateOnOccupied ==
    /\ last'.cmd = "create-booking"
    /\ last'.args.room_id \in 1..Len(rooms)
    /\ rooms[last'.args.room_id].status = "occupied"

\* The dates given are calendar dates and check-out is after check-in
StayDatesValid(args) ==
    /\ IsDate(args.check_in)
    /\ IsDate(args.check_out)
    /\ ToOrdinal(args.check_out) > ToOrdinal(args.check_in)

\* C5 as stated: create-booking on an occupied room fails with a conflict
\* error and leaves the store unchanged, whatever the guest id and dates are.
C5_ConflictWhateverTheDates ==
    [][CreateOnOccupied =>
          (last'.outcome = "conflict" /\ UNCHANGED tables)]_vars

\* C5 amended: create-booking on an occupied room leaves the store unchanged,
\* whatever the guest id and dates are; it fails with a conflict error when
\* the dates are well-formed with check-out after check-in, and with a
\* validation error otherwise.
C5_OccupiedRoomRejected ==
    [][CreateOnOccupied =>
          /\ UNCHANGED tables
          /\ last'.outcome = IF StayDatesValid(last'.args) THEN "conflict"
                             ELSE "validation"]_vars

\* create-booking was refused with a conflict, for a guest that does not exist
C5_Witness ==
    /\ last.cmd = "create-booking"
    /\ last.outcome = "conflict"
    /\ last.args.guest_id \notin 1..Len(guests)
    /\ rooms[last.args.room_id].status = "occupied"

\* C6: complete-booking on an 'upcoming' booking sets it to 'completed' and
\* its room from 'occupied' to 'available'; on a 'completed' booking it is
\* not an error and changes nothing, also when the room has been booked again.
C6_CompleteBooking ==
    [][(last'.cmd = "complete-booking"
          /\ last'.args.booking_id \in 1..Len(bookings)) =>
          LET id == last'.args.booking_id
              room_id == bookings[id].room_id
          IN  IF bookings[id].status = "upcoming"
              THEN /\ last'.outcome \in {"ok", "crash"}
                   /\ last'.outcome = "ok" =>
                        /\ bookings'[id].status = "completed"
                        /\ rooms[room_id].status = "occupied"
                        /\ rooms'[room_id].status = "available"
              ELSE /\ last'.outcome = "already_completed"
                   /\ UNCHANGED tables]_vars

\* A completed booking was completed again while its room is occupied by a
\* later booking
C6_Witness ==
    /\ last.cmd = "complete-booking"
    /\ last.outcome = "already_completed"
    /\ rooms[bookings[last.args.booking_id].room_id].status = "occupied"
    /\ \E b \in 1..Len(bookings) :
          /\ b # last.args.booking_id
          /\ bookings[b].room_id = bookings[last.args.booking_id].room_id
          /\ bookings[b].status = "upcoming"

\* The calendar day after d
NextDay(d) ==
    IF d[3] < DaysInMonth(d[1], d[2]) THEN <<d[1], d[2], d[3] + 1>>
    ELSE IF d[2] < 12 THEN <<d[1], d[2] + 1, 1>>
    ELSE <<d[1] + 1, 1, 1>>

\* The number of days to step from date a to reach date b (within a year)
RECURSIVE DaysFromTo(_, _, _)
DaysFromTo(a, b, fuel) ==
    IF a = b \/ fuel = 0 THEN 0 ELSE 1 + DaysFromTo(NextDay(a), b, fuel - 1)

BookingCharges ==
    \A b \in 1..Len(bookings) :
        /\ bookings[b].nights >= 1
        /\ bookings[b].nights =
              DaysFromTo(bookings[b].check_in, bookings[b].check_out, 366)
        /\ bookings[b].room_id \in 1..Len(rooms)
        /\ bookings[b].room_total =
              bookings[b].nights * rooms[bookings[b].room_id].rate

ChargesFrozen ==
    /\ \A r \in 1..Len(rooms) : rooms'[r].rate = rooms[r].rate
    /\ \A b \in 1..Len(bookings) :
          /\ bookings'[b].nights = bookings[b].nights
          /\ bookings'[b].room_total = bookings[b].room_total

\* C7: every booking's nights is the number of days from check_in to
\* check_out (>= 1) and its room_total is nights times the room's rate, a
\* rate that never changes after the room is added; no later operation
\* changes a booking's nights or room_total.
C7_NightsAndRoomTotal == []BookingCharges /\ [][ChargesFrozen]_vars

\* A 3-night stay across 29 February at rate 100 was completed, and another
\* booking was made after it
C7_Witness ==
    /\ Len(bookings) >= 2
    /\ bookings[1].status = "completed"
    /\ bookings[1].nights = 3
    /\ bookings[1].room_total = 300

\* C10: create-booking with a guest id or a room id that does not exist
\* inserts no booking and changes no room status.
C10_UnknownGuestOrRoomRejected ==
    [][(/\ last'.cmd = "create-booking"
        /\ \/ last'.args.guest_id \notin 1..Len(guests)
           \/ last'.args.room_id \notin 1..Len(rooms)) =>
          (UNCHANGED bookings /\ UNCHANGED rooms)]_vars

(***************************************************************************)
(* Properties of invoices and payments, checked under SpecBilling.         *)
(***************************************************************************)
ItemsOf(invoice_id) ==
    SelectSeq(invoice_items, LAMBDA it : it.invoice_id = invoice_id)

PaidSum(invoice_id) == SumOf(PaymentsOf(payments, invoice_id), "amount")

\* C2: with paid_sum the sum of an invoice's payments, its status is 'paid'
\* iff paid_sum >= total_amount, 'partial' iff 0 < paid_sum < total_amount,
\* and 'unpaid' otherwise.
C2_StatusFromPaidSum ==
    \A i \in 1..Len(invoices) :
        invoices[i].status =
            IF PaidSum(i) >= invoices[i].total_amount THEN "paid"
            ELSE IF PaidSum(i) > 0 THEN "partial"
            ELSE "unpaid"

\* C3: the amounts of an invoice's items sum to the invoice's total_amount.
C3_ItemsSumToTotal ==
    \A i \in 1..Len(invoices) :
        SumOf(ItemsOf(i), "amount") = invoices[i].total_amount

\* An invoice with a room item and an order item has been paid towards, and
\* its booking was completed after the invoice was generated
C3_Witness ==
    \E i \in 1..Len(invoices) :
        /\ Len(ItemsOf(i)) >= 2
        /\ PaymentsOf(payments, i) # <<>>
        /\ invoices[i].booking_id = 2
        /\ bookings[2].status = "completed"

OneInvoicePerBooking ==
    \A i, j \in 1..Len(invoices) :
        invoices[i].booking_id = invoices[j].booking_id => i = j

\* The --issue-date and --due-date options are absent or calendar dates
InvoiceDatesValid(args) ==
    /\ args.issue_date = None \/ IsDate(args.issue_date)
    /\ args.due_date = None \/ IsDate(args.due_date)

SecondInvoiceRefused ==
    (/\ last'.cmd = "invoice generate"
     /\ \E i \in 1..Len(invoices) :
           invoices[i].booking_id = last'.args.booking_id) =>
        /\ UNCHANGED tables
        /\ InvoiceDatesValid(last'.args) => last'.outcome = "conflict"
        /\ last'.outcome \in {"conflict", "validation"}

OrdersOfBooking(booking_id) ==
    SelectSeq(orders, LAMBDA o : o.booking_id = booking_id)

InvoiceGenerated ==
    (last'.cmd = "invoice generate" /\ last'.outcome = "ok") =>
        LET b == last'.args.booking_id
            ords == OrdersOfBooking(b)
            id == Len(invoices) + 1
            new == SubSeq(invoice_items', Len(invoice_items) + 1,
                          Len(invoice_items'))
        IN  /\ invoices' = Append(invoices,
                  [booking_id |-> b, status |-> "unpaid",
                   total_amount |-> bookings[b].room_total
                                      + SumOf(ords, "total_price")])
            /\ SubSeq(invoice_items', 1, Len(invoice_items)) = invoice_items
            /\ Len(new) = 1 + Len(ords)
            /\ \A k \in 1..Len(new) : new[k].invoice_id = id
            /\ new[1].amount = bookings[b].room_total
            /\ \A k \in 1..Len(ords) : new[1 + k].amount = ords[k].total_price

\* C8: a successful generate-invoice creates exactly one invoice, 'unpaid',
\* with total_amount = room_total + the sum of total_price over the booking's
\* orders, one item with amount room_total and one item per order with that
\* order's total_price (1 + number of orders items).
C8_InvoiceGenerated == [][InvoiceGenerated]_vars

\* generate-invoice has just made an invoice of 340 with items 300 and 40
C8_Witness ==
    /\ last.cmd = "invoice generate"
    /\ last.outcome = "ok"
    /\ invoices[Len(invoices)].total_amount = 340
    /\ Len(ItemsOf(Len(invoices))) = 2

(***************************************************************************)
(* Atomicity of the writing commands, checked under SpecTransactions.      *)
(***************************************************************************)
NoPartialMutation ==
    /\ \A b \in 1..Len(bookings) :
          bookings[b].status = "upcoming" =>
              rooms[bookings[b].room_id].status = "occupied"
    /\ \A i \in 1..Len(invoices) : ItemsOf(i) # <<>>
    /\ \A p \in 1..Len(payments) :
          invoices[payments[p].invoice_id].status # "unpaid"

\* C9: create-booking, complete-booking, generate-invoice and add-payment are
\* all-or-nothing: a command that does not succeed, also one that dies
\* between its first write and its commit, leaves the store as it was (never
\* a booking without the room occupied, an invoice without items, or a
\* payment without the status update).
C9_AllOrNothing ==
    /\ [][last'.outcome # "ok" => UNCHANGED tables]_vars
    /\ []NoPartialMutation

\* add-payment died after its INSERT: the invoice has no payment and is unpaid
C9_Witness ==
    /\ last.cmd = "payment add"
    /\ last.outcome = "crash"
    /\ PaymentsOf(payments, last.args.invoice_id) = <<>>
    /\ invoices[last.args.invoice_id].status = "unpaid"

(***************************************************************************)
(* Input checks and references, under SpecBilling and SpecBooking.         *)
(***************************************************************************)
\* C11: add-payment with amount <= 0 inserts no payment row and leaves the
\* invoice status unchanged.
C11_NonPositiveAmountRejected ==
    [][(last'.cmd = "payment add" /\ last'.args.amount <= 0) =>
          (UNCHANGED payments /\ UNCHANGED invoices)]_vars

\* Date a is the same day as date b or an earlier one
NotAfter(a, b) ==
    \/ a[1] < b[1]
    \/ a[1] = b[1] /\ a[2] < b[2]
    \/ a[1] = b[1] /\ a[2] = b[2] /\ a[3] <= b[3]

\* C12: create-booking whose check-out date is equal to or earlier than its
\* check-in date fails with a validation error, inserts no booking row and
\* leaves the room's status unchanged.
C12_CheckOutNotAfterCheckIn ==
    [][(/\ last'.cmd = "create-booking"
        /\ IsDate(last'.args.check_in)
        /\ IsDate(last'.args.check_out)
        /\ NotAfter(last'.args.check_out, last'.args.check_in)) =>
          (last'.outcome = "validation" /\ UNCHANGED tables)]_vars

\* create-booking with check-in = check-out was refused for an existing guest
\* and an available room
C12_Witness ==
    /\ last.cmd = "create-booking"
    /\ last.outcome = "validation"
    /\ last.args.check_in = last.args.check_out
    /\ last.args.guest_id \in 1..Len(guests)
    /\ last.args.room_id \in 1..Len(rooms)
    /\ rooms[last.args.room_id].status = "available"

\* C13: generate-invoice (with well-formed date options) reports not-found
\* exactly when no booking with the given id exists, and then inserts no
\* invoice and no items.
C13_NotFoundIffNoBooking ==
    [][(last'.cmd = "invoice generate" /\ InvoiceDatesValid(last'.args)) =>
          /\ last'.outcome = "not_found" <=>
                last'.args.booking_id \notin 1..Len(bookings)
          /\ last'.outcome = "not_found" =>
                UNCHANGED <<invoices, invoice_items>>]_vars

\* C14: every order references an existing booking and service, every
\* invoice an existing booking, every payment and invoice item an existing
\* invoice.
C14_ReferentialIntegrity ==
    /\ \A o \in 1..Len(orders) :
          /\ orders[o].booking_id \in 1..Len(bookings)
          /\ orders[o].service_id \in 1..Len(services)
    /\ \A i \in 1..Len(invoices) : invoices[i].booking_id \in 1..Len(bookings)
    /\ \A p \in 1..Len(payments) : payments[p].invoice_id \in 1..Len(invoices)
    /\ \A k \in 1..Len(invoice_items) :
          invoice_items[k].invoice_id \in 1..Len(invoices)

\* C15: every order has quantity >= 1 and total_price = quantity times the
\* price of its service; no operation changes or removes an existing order.
C15_OrdersWellFormed ==
    /\ [](\A o \in 1..Len(orders) :
            /\ orders[o].quantity >= 1
            /\ orders[o].total_price =
                  orders[o].quantity * services[orders[o].service_id].price)
    /\ [][SubSeq(orders', 1, Len(orders)) = orders]_vars

(***************************************************************************)
(* Frozen invoices and the balance read, under SpecBilling.                *)
(***************************************************************************)
InvoiceFrozen ==
    \A i \in 1..Len(invoices) :
        /\ invoices'[i].total_amount = invoices[i].total_amount
        /\ invoices'[i].booking_id = invoices[i].booking_id
        /\ SelectSeq(invoice_items', LAMBDA it : it.invoice_id = i) = ItemsOf(i)

\* C16: an invoice's total_amount and its invoice items are frozen at
\* generation: add-order on the invoiced booking, add-payment,
\* complete-booking and every other later operation leave them unchanged.
C16_InvoiceFrozen == [][InvoiceFrozen]_vars

\* The invoice of booking 2 has only its room item although the booking has
\* an order by now; it has a payment and the booking is completed
C16_Witness ==
    \E i \in 1..Len(invoices) :
        /\ invoices[i].booking_id = 2
        /\ Len(ItemsOf(i)) = 1
        /\ OrdersOfBooking(2) # <<>>
        /\ PaymentsOf(payments, i) # <<>>
        /\ bookings[2].status = "completed"

\* The amounts of the first n payment rows that are for the invoice, added up
RECURSIVE PaidUpTo(_, _)
PaidUpTo(invoice_id, n) ==
    IF n = 0 THEN 0
    ELSE PaidUpTo(invoice_id, n - 1)
           + (IF payments[n].invoice_id = invoice_id THEN payments[n].amount
              ELSE 0)

FiguresRight(f, invoice_id) ==
    /\ f.total = invoices[invoice_id].total_amount
    /\ f.status = invoices[invoice_id].status
    /\ f.paid = PaidUpTo(invoice_id, Len(payments))
    /\ f.balance = f.total - f.paid
    /\ (f.total = 340 /\ PaymentsOf(payments, invoice_id)
            = <<[invoice_id |-> invoice_id, amount |-> 340]>>) =>
          (f.status = "paid" /\ f.balance = 0)
    /\ (f.total = 340 /\ PaymentsOf(payments, invoice_id)
            = <<[invoice_id |-> invoice_id, amount |-> 100]>>) =>
          (f.status = "partial" /\ f.balance = 240)

BalanceRead ==
    /\ last'.cmd \in {"invoice show", "invoice list"} => UNCHANGED tables
    /\ last'.cmd = "invoice show" =>
          /\ last'.outcome = "ok" <=> last'.args.invoice_id \in 1..Len(invoices)
          /\ last'.outcome = "ok" =>
                FiguresRight(last'.report, last'.args.invoice_id)
    /\ last'.cmd = "invoice list" =>
          /\ DOMAIN last'.report = 1..Len(invoices)
          /\ \A i \in 1..Len(invoices) : FiguresRight(last'.report[i], i)

\* C17: invoice show and invoice list report paid = the sum of the invoice's
\* payment amounts and balance = total_amount - paid, and change nothing in
\* the store; total 340 with one payment of 340 reads 'paid' with balance 0,
\* and with one payment of 100 reads 'partial' with balance 240.
C17_BalanceRead == [][BalanceRead]_vars

\* invoice show printed Total 340, Paid 100, Balance 240 for a partial invoice
C17_Witness ==
    /\ last.cmd = "invoice show"
    /\ last.outcome = "ok"
    /\ last.report = [status |-> "partial", total |-> 340, paid |-> 100,
                      balance |-> 240]

(***************************************************************************)
(* The life of a booking, under SpecBooking.                               *)
(***************************************************************************)
BookingLifecycle ==
    /\ Len(bookings') >= Len(bookings)
    /\ \A b \in 1..Len(bookings) :
          \/ bookings'[b] = bookings[b]
          \/ /\ bookings[b].status = "upcoming"
             /\ bookings'[b] = [bookings[b] EXCEPT !.status = "completed"]
    /\ \A b \in (Len(bookings) + 1)..Len(bookings') :
          bookings'[b].status = "upcoming"

\* C18: a booking is created 'upcoming' and its only possible change is the
\* single transition upcoming -> completed; nothing moves a completed booking
\* back or alters its guest, room, dates, nights or room_total.
C18_BookingLifecycle == [][BookingLifecycle]_vars

\* complete-booking was tried again on a booking that stays completed
C18_Witness ==
    /\ last.cmd = "complete-booking"
    /\ last.outcome = "already_completed"
    /\ bookings[last.args.booking_id].status = "completed"

(***************************************************************************)
(* Rooms and services, under SpecCatalogue.                                *)
(***************************************************************************)
UniqueNumbersAndNames ==
    /\ \A i, j \in 1..Len(rooms) :
          rooms[i].room_number = rooms[j].room_number => i = j
    /\ \A i, j \in 1..Len(services) :
          services[i].name = services[j].name => i = j

DuplicateRefused ==
    /\ (/\ last'.cmd = "add-room"
        /\ \E i \in 1..Len(rooms) : rooms[i].room_number = last'.args.number) =>
          (last'.outcome = "integrity_error" /\ UNCHANGED tables)
    /\ (/\ last'.cmd = "service add"
        /\ \E i \in 1..Len(services) : services[i].name = last'.args.name) =>
          (last'.outcome = "integrity_error" /\ UNCHANGED tables)

\* C19: add-room with a room_number already in the store and add-service with
\* a name already in the store fail with the store's uniqueness conflict
\* (sqlite3.IntegrityError) and leave the store unchanged; room numbers and
\* service names are unique.
C19_UniqueNumbersAndNames ==
    []UniqueNumbersAndNames /\ [][DuplicateRefused]_vars

\* A second room 101 was refused in a store that holds both rooms and a service
C19_Witness ==
    /\ last.cmd = "add-room"
    /\ last.outcome = "integrity_error"
    /\ Len(rooms) = 2
    /\ services # <<>>

\* C20: every room rate and service price is positive, and so is every
\* booking's room_total and every invoice's total_amount.
C20_PositiveRatesAndPrices ==
    /\ \A r \in 1..Len(rooms) : rooms[r].rate > 0
    /\ \A v \in 1..Len(services) : services[v].price > 0
    /\ \A b \in 1..Len(bookings) : bookings[b].room_total > 0
    /\ \A i \in 1..Len(invoices) : invoices[i].total_amount > 0

(***************************************************************************)
(* The uninitialised store and init-db, under SpecSchema.                  *)
(***************************************************************************)
all_rows == <<guests, rooms, bookings, services, orders, invoices,
              invoice_items, payments>>

\* A command other than init-db was run on a store without schema
RanOnUninitialised == ~schema /\ last'.cmd # "init-db"

\* create-booking and invoice generate check their dates before they open
\* the store
DatesRefused(l) ==
    \/ l.cmd = "create-booking" /\ ~StayDatesValid(l.args)
    \/ l.cmd = "invoice generate" /\ ~InvoiceDatesValid(l.args)

\* init-db creates the schema and leaves every existing row as it was
InitDbIdempotent ==
    last'.cmd = "init-db" =>
        /\ schema'
        /\ all_rows' = all_rows
        /\ last'.outcome = "ok"

RoomOfCommand(l) ==
    IF l.cmd = "create-booking" THEN {l.args.room_id}
    ELSE IF l.cmd = "complete-booking" /\ l.args.booking_id \in 1..Len(bookings)
         THEN {bookings[l.args.booking_id].room_id}
    ELSE {}

FrameEffects ==
    /\ Len(rooms') = Len(rooms)
    /\ Len(invoices') >= Len(invoices)
    /\ last'.cmd \in {"order add", "invoice generate", "payment add"} =>
           (rooms' = rooms /\ bookings' = bookings)
    /\ \A r \in 1..Len(rooms) :
           rooms'[r].status # rooms[r].status =>
               (/\ last'.cmd \in {"create-booking", "complete-booking"}
                /\ r \in RoomOfCommand(last'))
    /\ \A i \in 1..Len(invoices) :
           invoices'[i].status # invoices[i].status =>
               (last'.cmd = "payment add" /\ i = last'.args.invoice_id)

\* C22: add-order, generate-invoice and add-payment leave all rooms and
\* bookings unchanged; a room's status changes only in a create-booking or a
\* complete-booking and only if it is the room of that booking; an invoice's
\* status changes only in an add-payment on that invoice.
C22_FrameEffects == [][FrameEffects]_vars

\* Room 102 was booked while room 101, free again, stayed available, and a
\* payment on one of two invoices left the other unpaid
C22_Witness ==
    /\ Len(rooms) = 2
    /\ rooms[1].status = "available"
    /\ rooms[2].status = "occupied"
    /\ Len(bookings) = 2
    /\ bookings[2].room_id = 2
    /\ Len(invoices) = 2
    /\ \E i, j \in 1..2 :
           invoices[i].status = "unpaid" /\ invoices[j].status # "unpaid"
    /\ last.cmd = "payment add"
    /\ last.outcome = "ok"

(***************************************************************************)
(* The direction of an invoice's status, under SpecBilling.                *)
(***************************************************************************)
StatusRank(status) ==
    CASE status = "unpaid" -> 0
      [] status = "partial" -> 1
      [] status = "paid" -> 2

StatusMovesForward ==
    \A i \in 1..Len(invoices) :
        StatusRank(invoices'[i].status) >= StatusRank(invoices[i].status)

\* C23: over any sequence of operations an invoice's status never goes from
\* 'paid' back to 'partial' or 'unpaid', and never from 'partial' back to
\* 'unpaid'.
C23_StatusMovesForward == [][StatusMovesForward]_vars

====
